---- MODULE Spec2Model ----
(***************************************************************************)
(* WattSaver (src/wattsaver.py): hardware-capability detection, profile    *)
(* synthesis, live-state reconciliation and the tray callbacks that hand   *)
(* requests to the privileged helper.                                      *)
(*                                                                         *)
(* Text is modelled as a sequence of one-character tokens.  Two tokens     *)
(* stand for non-ASCII characters: "sup2" is U+00B2 (SUPERSCRIPT TWO,      *)
(* str.isdigit() is True, int() rejects it) and "ar3" is U+0663            *)
(* (ARABIC-INDIC DIGIT THREE, str.isdigit() is True, int() reads 3).       *)
(* An optional value (Python None or an int) is a record [tag, val]; a     *)
(* call that raises is a record whose tag names the exception.  A         *)
(* temperature val / 1000 is kept as the fraction num / den.               *)
(***************************************************************************)
EXTENDS Integers, Sequences, FiniteSets, TLC

VARIABLES
    pc,                     \* position of the modelled run
    content,                \* text of the file handed to read_sysfs_int (SpecRead)
    result,                 \* what read_sysfs_int returned or raised    (SpecRead)
    files,                  \* files read by CPUInfo.__init__            (SpecProbe)
    cpu,                    \* CPUInfo fields: hw_min_khz, hw_max_khz, base_khz
    profiles,               \* self.profiles: sequence of [key, freq_khz]
    live,                   \* value read from scaling_max_freq
    conf,                   \* /etc/intel-undervolt.conf                 (SpecUv)
    current_profile_key,    \* self.current_profile_key
    current_undervolt_key,  \* self.current_undervolt_key
    profile_items,          \* keys of self.profile_items
    undervolt_items,        \* keys of self.undervolt_items
    request,                \* command the latest callback handed to run_helper
    fault,                  \* exception that escaped a handler, or "none"
    sensors,                \* /sys/class/hwmon and thermal_zone0       (SpecTemp)
    temp,                   \* what _read_cpu_temp returned
    gpu_item,               \* mode on the label of self.gpu_item, or "absent"
    event                   \* the latest callback and what run_helper told it

vars == << pc, content, result, files, cpu, profiles, live, conf,
           current_profile_key, current_undervolt_key, profile_items,
           undervolt_items, request, fault, sensors, temp, gpu_item, event >>

----------------------------------------------------------------------------
(* Bounds of the model *)

MaxLen == 3          \* longest file text handed to read_sysfs_int in SpecRead

MaxFreqStep == 8     \* the dense frequency range is 0 .. MaxFreqStep * 50 MHz

MaxOffset == 130     \* undervolt offsets in the config file reach -MaxOffset mV

MaxSkipped == 2      \* most config lines before the CPU-plane undervolt line

MaxModelLen == 4     \* longest CPU model string of SpecProbe, in tokens

MaxChips == 2        \* most entries of /sys/class/hwmon

----------------------------------------------------------------------------
(* Optional values and outcomes *)

None == [tag |-> "None", val |-> 0]

Some(n) == [tag |-> "int", val |-> n]

Exceptions == {"ValueError", "IndexError", "KeyError"}

Raise(exc) == [tag |-> exc, val |-> 0]

Raised(r) == r.tag \in Exceptions

NoFile == << "ENOENT" >>    \* open() raises OSError: the file has no text

----------------------------------------------------------------------------
(* Characters *)

AsciiDigits == {"0", "1", "2", "3", "4", "5", "6", "7", "8", "9"}

Whitespace == {" "}

\* str.isdigit(): decimal digits and characters with Numeric_Type=Digit
IsDigitChar(c) == c \in AsciiDigits \cup {"sup2", "ar3"}

\* characters int() accepts as a digit: Unicode category Nd only
IsDecimalChar(c) == c \in AsciiDigits \cup {"ar3"}

DigitVal(c) ==
    CASE c = "0" -> 0 [] c = "1" -> 1 [] c = "2" -> 2 [] c = "3" -> 3
      [] c = "4" -> 4 [] c = "5" -> 5 [] c = "6" -> 6 [] c = "7" -> 7
      [] c = "8" -> 8 [] c = "9" -> 9 [] c = "ar3" -> 3 [] OTHER -> 0

RECURSIVE LStrip(_, _)
LStrip(s, chars) ==
    IF s # << >> /\ Head(s) \in chars THEN LStrip(Tail(s), chars) ELSE s

RECURSIVE RStrip(_, _)
RStrip(s, chars) ==
    IF s # << >> /\ s[Len(s)] \in chars
    THEN RStrip(SubSeq(s, 1, Len(s) - 1), chars) ELSE s

\* str.strip()
Strip(s) == RStrip(LStrip(s, Whitespace), Whitespace)

\* str.isdigit(): non-empty and every character is a digit character
IsDigit(s) == s # << >> /\ \A i \in 1..Len(s) : IsDigitChar(s[i])

RECURSIVE DecimalValue(_)
DecimalValue(s) ==
    IF s = << >> THEN 0
    ELSE 10 * DecimalValue(SubSeq(s, 1, Len(s) - 1)) + DigitVal(s[Len(s)])

\* int(val) for a text that already passed val.lstrip("-").isdigit():
\* at most one sign, then decimal characters only; anything else is ValueError
IntOf(s) ==
    LET body == LStrip(s, {"-"})
        signs == Len(s) - Len(body)
    IN  IF signs <= 1 /\ \A i \in 1..Len(body) : IsDecimalChar(body[i])
        THEN Some(IF signs = 1 THEN 0 - DecimalValue(body) ELSE DecimalValue(body))
        ELSE Raise("ValueError")

----------------------------------------------------------------------------
(* Utility functions *)

\* read_sysfs(path): the stripped text, or None when open() fails
read_sysfs(file) ==
    IF file = NoFile THEN [tag |-> "None", text |-> << >>]
    ELSE [tag |-> "str", text |-> Strip(file)]

\* read_sysfs_int(path)
read_sysfs_int(file) ==
    LET val == read_sysfs(file)
    IN  IF val.tag = "str" /\ val.text # << >> /\ IsDigit(LStrip(val.text, {"-"}))
        THEN IntOf(val.text)
        ELSE None

\* Python truthiness of an optional int: None and 0 are falsy
Truthy(v) == v.tag = "int" /\ v.val # 0

\* `v or default`
OrDefault(v, default) == IF Truthy(v) THEN v.val ELSE default

\* the text the kernel writes for a non-negative integer ("%u")
RECURSIVE Text(_)
Text(n) ==
    LET d == << "0", "1", "2", "3", "4", "5", "6", "7", "8", "9" >>
    IN  IF n < 10 THEN << d[n + 1] >> ELSE Append(Text(n \div 10), d[(n % 10) + 1])

----------------------------------------------------------------------------
(* CapabilityProbe: CPUInfo.__init__, _read_model, _detect_base_freq *)

\* A model string is a sequence of tokens: "@", digits, ".", " ", the token
\* "GHz" for those three characters, and "x" for any other character.
\* /proc/cpuinfo is a record:
\*   readable  : open() succeeds
\*   has_line  : some line starts with "model name"
\*   has_colon : the first such line contains ":"
\*   text      : what follows the first ":" on that line
UnknownCPU == << "x", "x", "x", "x", "x", "x", "x", " ", "x", "x", "x" >>

\* _read_model: OSError is caught; split(":", 1)[1] raises IndexError on a
\* "model name" line without a colon, and nothing catches it
_read_model(cpuinfo) ==
    IF ~cpuinfo.readable \/ ~cpuinfo.has_line
    THEN [tag |-> "str", text |-> UnknownCPU]
    ELSE IF ~cpuinfo.has_colon
    THEN [tag |-> "IndexError", text |-> << >>]
    ELSE [tag |-> "str", text |-> Strip(cpuinfo.text)]

\* characters of the class [\d.]
DigitOrDot == AsciiDigits \cup {"."}

\* first position from i on that does not hold a character of `class`
RECURSIVE SkipWhile(_, _, _)
SkipWhile(s, i, class) ==
    IF i <= Len(s) /\ s[i] \in class THEN SkipWhile(s, i + 1, class) ELSE i

\* the group of a match of  @\s*([\d.]+)\s*GHz  that starts at position i
MatchAt(s, i) ==
    LET a == SkipWhile(s, i + 1, Whitespace)
        b == SkipWhile(s, a, DigitOrDot)
        c == SkipWhile(s, b, Whitespace)
    IN  IF s[i] = "@" /\ b > a /\ c <= Len(s) /\ s[c] = "GHz"
        THEN << SubSeq(s, a, b - 1) >>
        ELSE << >>

\* re.search: the leftmost match; << >> when there is none
re_search(s) ==
    LET starts == {i \in 1..Len(s) : MatchAt(s, i) # << >>}
    IN  IF starts = {} THEN << >>
        ELSE MatchAt(s, CHOOSE i \in starts : \A j \in starts : i <= j)

RECURSIVE Pow10(_)
Pow10(n) == IF n = 0 THEN 1 ELSE 10 * Pow10(n - 1)

\* int(float(group) * 1_000_000): float() raises ValueError unless the group
\* has a digit and at most one "."; for the groups drawn here the binary64
\* product truncates to the exact decimal value
GHzToKHz(group) ==
    LET dots == {i \in 1..Len(group) : group[i] = "."}
        p == IF dots = {} THEN Len(group) + 1 ELSE CHOOSE i \in dots : TRUE
        ip == SubSeq(group, 1, p - 1)
        fp == SubSeq(group, p + 1, Len(group))
    IN  IF Cardinality(dots) > 1 \/ Len(group) = Cardinality(dots)
        THEN Raise("ValueError")
        ELSE Some(DecimalValue(ip) * 1000000
                  + (IF Len(fp) <= 6 THEN DecimalValue(fp) * Pow10(6 - Len(fp))
                     ELSE DecimalValue(fp) \div Pow10(Len(fp) - 6)))

\* _detect_base_freq
_detect_base_freq(base_file, model, hw_min_khz, hw_max_khz) ==
    LET val == read_sysfs_int(base_file)
        match == re_search(model)
    IN  IF Raised(val) THEN val
        ELSE IF Truthy(val) THEN val
        ELSE IF match # << >> THEN GHzToKHz(match[1])
        ELSE Some((hw_min_khz + hw_max_khz) \div 2)

\* CPUInfo.__init__: the first exception that escapes ends the construction
CPUInfo(f) ==
    LET model == _read_model(f.cpuinfo)
        lo == read_sysfs_int(f.min)
        hi == read_sysfs_int(f.max)
        hw_min_khz == OrDefault(lo, 800000)
        hw_max_khz == OrDefault(hi, 4000000)
        base == _detect_base_freq(f.base, model.text, hw_min_khz, hw_max_khz)
        failed(exc) == [tag |-> exc, hw_min_khz |-> 0, hw_max_khz |-> 0, base_khz |-> 0]
    IN  IF model.tag # "str" THEN failed(model.tag)
        ELSE IF Raised(lo) THEN failed(lo.tag)
        ELSE IF Raised(hi) THEN failed(hi.tag)
        ELSE IF Raised(base) THEN failed(base.tag)
        ELSE [tag |-> "ok", hw_min_khz |-> hw_min_khz, hw_max_khz |-> hw_max_khz,
              base_khz |-> base.val]

CpuOf(r) ==
    [hw_min_khz |-> r.hw_min_khz, hw_max_khz |-> r.hw_max_khz, base_khz |-> r.base_khz]

----------------------------------------------------------------------------
(* ProfileSynthesizer: CPUInfo.build_profiles *)

\* Bucket with a tie rounded up (round-half-up) instead of to even
Bucket_halfup(freq_khz) ==
    LET q == freq_khz \div 100000
        r == freq_khz % 100000
    IN  IF r < 50000 THEN q ELSE q + 1

\* round(freq_khz / 100000): Python 3 rounds a tie to the even integer
Bucket(freq_khz) ==
    LET q == freq_khz \div 100000
        r == freq_khz % 100000
    IN  IF r < 50000 THEN q
        ELSE IF r > 50000 THEN q + 1
        ELSE IF q % 2 = 0 THEN q ELSE q + 1

\* the five candidates of build_profiles, in the order of the source
Candidates(c) ==
    LET lo == c.hw_min_khz
        hi == c.hw_max_khz
        base == c.base_khz
        span == hi - lo
    IN  << [key |-> "powersaver",  freq_khz |-> lo],
           [key |-> "low",         freq_khz |-> lo + (span \div 4)],
           [key |-> "balanced",    freq_khz |-> base],
           [key |-> "high",        freq_khz |-> lo + ((3 * span) \div 4)],
           [key |-> "performance", freq_khz |-> hi] >>

\* Dedup without seen.add(bucket): an accepted bucket is not recorded
RECURSIVE Dedup_noadd(_, _, _)
Dedup_noadd(cands, seen, unique) ==
    IF cands = << >> THEN unique
    ELSE LET p == Head(cands)
             bucket == Bucket(p.freq_khz)
         IN  IF bucket \notin seen
             THEN Dedup_noadd(Tail(cands), seen, Append(unique, p))
             ELSE Dedup_noadd(Tail(cands), seen, unique)

\* the deduplication loop: keep the first candidate of every bucket
RECURSIVE Dedup(_, _, _)
Dedup(cands, seen, unique) ==
    IF cands = << >> THEN unique
    ELSE LET p == Head(cands)
             bucket == Bucket(p.freq_khz)
         IN  IF bucket \notin seen
             THEN Dedup(Tail(cands), seen \cup {bucket}, Append(unique, p))
             ELSE Dedup(Tail(cands), seen, unique)

build_profiles(c) == Dedup(Candidates(c), {}, << >>)

----------------------------------------------------------------------------
(* StateReconciler: WattSaver._detect_profile *)

Abs(n) == IF n < 0 THEN 0 - n ELSE n

\* the loop over self.profiles[1:], keeping the first strictly smaller diff
RECURSIVE NearestKey(_, _, _, _)
NearestKey(current, rest, best_key, best_diff) ==
    IF rest = << >> THEN best_key
    ELSE LET p == Head(rest)
             diff == Abs(current - p.freq_khz)
         IN  IF diff < best_diff
             THEN NearestKey(current, Tail(rest), p.key, diff)
             ELSE NearestKey(current, Tail(rest), best_key, best_diff)

\* _detect_profile with best_diff starting at 0, so that nothing beats it
_detect_profile_zero(current, profs) ==
    IF current.tag = "None" THEN "balanced"
    ELSE NearestKey(current.val, Tail(profs), profs[1].key, 0)

\* _detect_profile, given what read_sysfs_int returned for scaling_max_freq
_detect_profile(current, profs) ==
    IF current.tag = "None" THEN "balanced"
    ELSE NearestKey(current.val, Tail(profs), profs[1].key,
                    Abs(current.val - profs[1].freq_khz))

_get_profile(profs, key) ==
    LET hits == {i \in 1..Len(profs) : profs[i].key = key}
    IN  IF hits = {} THEN << >>
        ELSE << profs[CHOOSE i \in hits : \A j \in hits : i <= j] >>

Keys(profs) == {profs[i].key : i \in 1..Len(profs)}

----------------------------------------------------------------------------
(* StateReconciler: WattSaver._detect_undervolt *)

\* A line of /etc/intel-undervolt.conf, after line.strip():
\*   directive : line.startswith("undervolt")
\*   cpu       : "'CPU'" in line
\*   cache     : "Cache" in line
\*   kind      : what float(parts[-1]) makes of the last field: "num" a finite
\*               number, "inf" an infinity, "bad" a ValueError
\*   tenths    : the number, in tenths of a millivolt
IsMatch(line) == line.directive /\ line.cpu /\ ~line.cache

\* int(float(parts[-1])): truncation towards zero
TruncTenths(t) == IF t >= 0 THEN t \div 10 ELSE 0 - ((0 - t) \div 10)

\* Classify with an exclusive light/medium boundary (> -50 for >= -50)
Classify_exclusive(offset) ==
    IF offset = 0 THEN "none"
    ELSE IF offset > -50 THEN "light"
    ELSE IF offset >= -100 THEN "medium"
    ELSE "aggressive"

\* the if/elif chain of _detect_undervolt
Classify(offset) ==
    IF offset = 0 THEN "none"
    ELSE IF offset >= -50 THEN "light"
    ELSE IF offset >= -100 THEN "medium"
    ELSE "aggressive"

\* the loop over the lines: the first matching line decides; ValueError is
\* caught and yields "none", OverflowError (int(inf)) is not caught
RECURSIVE ScanUndervolt(_)
ScanUndervolt(lines) ==
    IF lines = << >> THEN [tag |-> "key", key |-> "none"]
    ELSE LET line == Head(lines)
         IN  IF IsMatch(line)
             THEN CASE line.kind = "num" ->
                          [tag |-> "key", key |-> Classify(TruncTenths(line.tenths))]
                    [] line.kind = "bad" -> [tag |-> "key", key |-> "none"]
                    [] OTHER -> [tag |-> "OverflowError", key |-> ""]
             ELSE ScanUndervolt(Tail(lines))

\* the config file when open() raises OSError
NoConf == [readable |-> FALSE, lines |-> << >>]

_detect_undervolt(file) ==
    IF ~file.readable THEN [tag |-> "key", key |-> "none"]
    ELSE ScanUndervolt(file.lines)

----------------------------------------------------------------------------
(* SensorAggregator: WattSaver._read_cpu_temp *)

\* /sys/class/hwmon is a record:
\*   listable : os.listdir succeeds
\*   chips    : the entries in the order os.listdir returns them, each with
\*              the text of its name file (a token) and its temp1_input file
\*   zone     : /sys/class/thermal/thermal_zone0/temp
\* A temperature is val / 1000, kept as the fraction num / den.
NoTemp == [tag |-> "None", num |-> 0, den |-> 1]

Degrees(val) == [tag |-> "float", num |-> val, den |-> 1000]

CpuChipNames == {"coretemp", "k10temp"}

\* the loop over the chips, stopping at the first matching chip whatever
\* its temp1_input holds
RECURSIVE ScanHwmon_firstonly(_)
ScanHwmon_firstonly(chips) ==
    IF chips = << >> THEN NoTemp
    ELSE IF Head(chips).name \in CpuChipNames
    THEN LET val == read_sysfs_int(Head(chips).temp1_input)
         IN  IF Raised(val) THEN [tag |-> val.tag, num |-> 0, den |-> 1]
             ELSE IF val.tag = "int" THEN Degrees(val.val)
             ELSE NoTemp
    ELSE ScanHwmon_firstonly(Tail(chips))

\* the loop over the chips: a matching chip whose temp1_input is not an
\* integer is passed over and the loop goes on
RECURSIVE ScanHwmon(_)
ScanHwmon(chips) ==
    IF chips = << >> THEN NoTemp
    ELSE IF Head(chips).name \in CpuChipNames
    THEN LET val == read_sysfs_int(Head(chips).temp1_input)
         IN  IF Raised(val) THEN [tag |-> val.tag, num |-> 0, den |-> 1]
             ELSE IF val.tag = "int" THEN Degrees(val.val)
             ELSE ScanHwmon(Tail(chips))
    ELSE ScanHwmon(Tail(chips))

\* _read_cpu_temp: the hwmon loop (OSError of os.listdir is caught), then
\* the thermal_zone0 fallback
_read_cpu_temp(s) ==
    LET found == IF s.listable THEN ScanHwmon(s.chips) ELSE NoTemp
        val == read_sysfs_int(s.zone)
    IN  IF found.tag # "None" THEN found
        ELSE IF Raised(val) THEN [tag |-> val.tag, num |-> 0, den |-> 1]
        ELSE IF val.tag = "int" THEN Degrees(val.val)
        ELSE NoTemp

NoSensors == [listable |-> FALSE, chips |-> << >>, zone |-> NoFile]

----------------------------------------------------------------------------
(* The tray application: WattSaver.__init__ and its callbacks *)

UNDERVOLT_PRESETS ==
    << [key |-> "none",       offset |-> 0],
       [key |-> "light",      offset |-> -50],
       [key |-> "medium",     offset |-> -100],
       [key |-> "aggressive", offset |-> -125] >>

PresetKeys == {UNDERVOLT_PRESETS[i].key : i \in 1..Len(UNDERVOLT_PRESETS)}

PresetOffset(key) ==
    UNDERVOLT_PRESETS[CHOOSE i \in 1..Len(UNDERVOLT_PRESETS) :
                          UNDERVOLT_PRESETS[i].key = key].offset

\* run_helper: what the caller sees of "helper not found", exit status 0,
\* exit status 126, another non-zero status, the 30 s timeout, and any other
\* exception of subprocess.run
HelperOutcomes == {"ok", "not_found", "dismissed", "failed", "timeout", "error"}

\* the first component of what run_helper returns, whatever the outcome
run_helper_always(outcome) == TRUE

\* the first component of what run_helper returns
run_helper(outcome) == outcome = "ok"

GPU_MODES == << "integrated", "hybrid", "nvidia" >>

\* str.lower on the words envycontrol prints
Lower(word) ==
    CASE word = "Hybrid" -> "hybrid"
      [] word = "Nvidia" -> "nvidia"
      [] OTHER -> word

\* _detect_gpu_mode: q.ok is FALSE when subprocess.run raised; q.stdout is
\* the output as a sequence of words, and a mode is "in" the output when a
\* lowered word is that mode.  The first mode of GPU_MODES found wins.
_detect_gpu_mode(q) ==
    LET found == {m \in 1..Len(GPU_MODES) :
                     \E i \in 1..Len(q.stdout) : Lower(q.stdout[i]) = GPU_MODES[m]}
    IN  IF ~q.ok \/ found = {} THEN "unknown"
        ELSE GPU_MODES[CHOOSE m \in found : \A n \in found : m <= n]

\* the latest callback and the outcome of its run_helper call: "none" when
\* it returned before the call, "cancel" when its dialog was dismissed
Event(handler, outcome) == [handler |-> handler, outcome |-> outcome]

\* Gtk.SpinButton over Gtk.Adjustment(lower, upper): the value the dialog
\* returns is the entered value clamped to [lower, upper]
SpinValue(entered, lower, upper) ==
    IF entered < lower THEN lower ELSE IF entered > upper THEN upper ELSE entered

\* The spin button of _on_custom_freq holds a binary64 number of GHz; the kHz
\* value x stands for the double nearest to x / 1,000,000 (what
\* hw_min_khz / 1_000_000 and a typed two-decimal text both produce).  These
\* are the multiples of 10 MHz below 8 GHz whose double, multiplied by
\* 1_000_000, falls below x: 4.1 * 1_000_000 is 4099999.9999999995.
LossyKHz == {2010000, 2030000, 2050000, 2070000, 2090000,
             4020000, 4060000, 4100000, 4140000, 4180000}

\* int(freq_ghz * 1_000_000) for freq_ghz the double nearest to x / 1,000,000
TruncGHz(x) == IF x \in LossyKHz THEN x - 1 ELSE x

----------------------------------------------------------------------------
(* Values of the variables a specification does not use *)

NoCpu == [hw_min_khz |-> 0, hw_max_khz |-> 0, base_khz |-> 0]

NoCpuinfo == [readable |-> FALSE, has_line |-> FALSE, has_colon |-> FALSE, text |-> << >>]

NoFiles == [cpuinfo |-> NoCpuinfo, min |-> NoFile, max |-> NoFile, base |-> NoFile]

NoRequest == [verb |-> "none", arg |-> 0, by |-> "none"]

NoEvent == Event("none", "none")

----------------------------------------------------------------------------
(* SpecRead: read_sysfs_int applied to every short file text *)

ReadAlphabet == {"-", "0", "5", " ", "x", "sup2", "ar3"}

Contents == {NoFile} \cup UNION {[1..n -> ReadAlphabet] : n \in 0..MaxLen}

InitRead ==
    /\ pc = "read"
    /\ content \in Contents
    /\ result = None
    /\ files = NoFiles
    /\ cpu = NoCpu
    /\ profiles = << >>
    /\ live = None
    /\ conf = NoConf
    /\ current_profile_key = ""
    /\ current_undervolt_key = ""
    /\ profile_items = {}
    /\ undervolt_items = {}
    /\ request = NoRequest
    /\ fault = "none"
    /\ sensors = NoSensors
    /\ temp = NoTemp
    /\ gpu_item = "absent"
    /\ event = NoEvent

ReadInt ==
    /\ pc = "read"
    /\ result' = read_sysfs_int(content)
    /\ pc' = "read_done"
    /\ UNCHANGED << content, files, cpu, profiles, live, conf,
                    current_profile_key, current_undervolt_key, profile_items,
                    undervolt_items, request, fault >>
    /\ UNCHANGED << sensors, temp >>
    /\ UNCHANGED << gpu_item, event >>

NextRead == ReadInt

SpecRead == InitRead /\ [][NextRead]_vars

----------------------------------------------------------------------------
(* SpecProbe: CPUInfo.__init__ over the files it reads *)

ModelAlphabet == {"@", "1", ".", " ", "GHz", "x"}

ModelTexts == UNION {[1..n -> ModelAlphabet] : n \in 0..MaxModelLen}

CpuinfoFiles ==
    {NoCpuinfo,
     [readable |-> TRUE, has_line |-> FALSE, has_colon |-> FALSE, text |-> << >>],
     [readable |-> TRUE, has_line |-> TRUE, has_colon |-> FALSE, text |-> << >>]}
    \cup {[readable |-> TRUE, has_line |-> TRUE, has_colon |-> TRUE, text |-> t] :
             t \in ModelTexts}

ProbeFiles ==
    [cpuinfo : CpuinfoFiles,
     min : {NoFile, Text(400000)},
     max : {NoFile, Text(3400000)},
     base : {NoFile, << "0" >>, Text(1000000), << "-", "-", "5" >>}]

InitProbe ==
    /\ pc = "probe"
    /\ files \in ProbeFiles
    /\ content = NoFile
    /\ result = None
    /\ cpu = NoCpu
    /\ profiles = << >>
    /\ live = None
    /\ conf = NoConf
    /\ current_profile_key = ""
    /\ current_undervolt_key = ""
    /\ profile_items = {}
    /\ undervolt_items = {}
    /\ request = NoRequest
    /\ fault = "none"
    /\ sensors = NoSensors
    /\ temp = NoTemp
    /\ gpu_item = "absent"
    /\ event = NoEvent

Probe ==
    /\ pc = "probe"
    /\ LET r == CPUInfo(files)
       IN  IF r.tag = "ok"
           THEN /\ cpu' = CpuOf(r)
                /\ pc' = "probed"
                /\ fault' = fault
           ELSE /\ cpu' = cpu
                /\ pc' = "crashed"
                /\ fault' = r.tag
    /\ UNCHANGED << content, result, files, profiles, live, conf,
                    current_profile_key, current_undervolt_key, profile_items,
                    undervolt_items, request >>
    /\ UNCHANGED << sensors, temp >>
    /\ UNCHANGED << gpu_item, event >>

NextProbe == Probe

SpecProbe == InitProbe /\ [][NextProbe]_vars

----------------------------------------------------------------------------
(* SpecProfiles: build_profiles and _detect_profile over capabilities *)

DenseFreqs == {50000 * k : k \in 0..MaxFreqStep}

HwMinValues == DenseFreqs \cup {800000, 3600000}

HwMaxValues == DenseFreqs \cup {900000, 3400000, 3800000, 4000000}

BaseValues == DenseFreqs \cup {850000, 1000000, 2400000, 3700000}

LiveFiles ==
    {NoFile, << "-", "-", "5" >>}
             \cup {Text(25000 * k) : k \in 0..(2 * MaxFreqStep)}
             \cup {Text(n) : n \in {800000, 1075000, 1600000, 2390000, 2400000,
                                    3200000, 3700000, 4000000}}

InitProfiles ==
    /\ pc = "caps"
    /\ cpu \in [hw_min_khz : HwMinValues, hw_max_khz : HwMaxValues,
                base_khz : BaseValues]
    /\ content = NoFile
    /\ result = None
    /\ files = NoFiles
    /\ profiles = << >>
    /\ live = None
    /\ conf = NoConf
    /\ current_profile_key = ""
    /\ current_undervolt_key = ""
    /\ profile_items = {}
    /\ undervolt_items = {}
    /\ request = NoRequest
    /\ fault = "none"
    /\ sensors = NoSensors
    /\ temp = NoTemp
    /\ gpu_item = "absent"
    /\ event = NoEvent

BuildProfiles ==
    /\ pc = "caps"
    /\ profiles' = build_profiles(cpu)
    /\ pc' = "built"
    /\ UNCHANGED << content, result, files, cpu, live, conf,
                    current_profile_key, current_undervolt_key, profile_items,
                    undervolt_items, request, fault >>
    /\ UNCHANGED << sensors, temp >>
    /\ UNCHANGED << gpu_item, event >>

DetectProfile ==
    /\ pc = "built"
    /\ \E file \in LiveFiles :
         LET current == read_sysfs_int(file)
         IN  IF Raised(current)
             THEN /\ pc' = "crashed"
                  /\ fault' = current.tag
                  /\ UNCHANGED << live, current_profile_key >>
             ELSE /\ pc' = "detected"
                  /\ live' = current
                  /\ current_profile_key' = _detect_profile(current, profiles)
                  /\ fault' = fault
    /\ UNCHANGED << content, result, files, cpu, profiles, conf,
                    current_undervolt_key, profile_items, undervolt_items,
                    request >>
    /\ UNCHANGED << sensors, temp >>
    /\ UNCHANGED << gpu_item, event >>

NextProfiles == BuildProfiles \/ DetectProfile

SpecProfiles == InitProfiles /\ [][NextProfiles]_vars

----------------------------------------------------------------------------
(* SpecUv: _detect_undervolt over short config files *)

OffsetTenths == {0 - 10 * k : k \in 0..MaxOffset} \cup {-1005, -505, -5, 5, 500}

OtherLine(d, c, ch) ==
    [directive |-> d, cpu |-> c, cache |-> ch, kind |-> "num", tenths |-> -1250]

CpuLine(k, t) ==
    [directive |-> TRUE, cpu |-> TRUE, cache |-> FALSE, kind |-> k, tenths |-> t]

\* lines the loop skips: another directive, another plane, the Cache plane
SkippedLines ==
    {OtherLine(FALSE, TRUE, FALSE), OtherLine(TRUE, FALSE, FALSE),
     OtherLine(TRUE, TRUE, TRUE)}

\* CPU-plane undervolt lines
CpuLines ==
    {CpuLine("num", t) : t \in OffsetTenths} \cup {CpuLine("bad", 0), CpuLine("inf", 0)}

\* a config file: skipped lines, then at most one CPU-plane line, then
\* possibly a second CPU-plane line, which the loop never reaches
ConfFiles ==
    {NoConf} \cup
    {[readable |-> TRUE, lines |-> pre \o mid \o post] :
        pre \in UNION {[1..n -> SkippedLines] : n \in 0..MaxSkipped},
        mid \in {<< >>} \cup {<< l >> : l \in CpuLines},
        post \in {<< >>, << CpuLine("num", -1250) >>}}

InitUv ==
    /\ pc = "uv"
    /\ conf \in ConfFiles
    /\ content = NoFile
    /\ result = None
    /\ files = NoFiles
    /\ cpu = NoCpu
    /\ profiles = << >>
    /\ live = None
    /\ current_profile_key = ""
    /\ current_undervolt_key = ""
    /\ profile_items = {}
    /\ undervolt_items = {}
    /\ request = NoRequest
    /\ fault = "none"
    /\ sensors = NoSensors
    /\ temp = NoTemp
    /\ gpu_item = "absent"
    /\ event = NoEvent

DetectUndervolt ==
    /\ pc = "uv"
    /\ LET r == _detect_undervolt(conf)
       IN  IF r.tag = "key"
           THEN /\ current_undervolt_key' = r.key
                /\ pc' = "uv_done"
                /\ fault' = fault
           ELSE /\ current_undervolt_key' = current_undervolt_key
                /\ pc' = "crashed"
                /\ fault' = r.tag
    /\ UNCHANGED << content, result, files, cpu, profiles, live, conf,
                    current_profile_key, profile_items, undervolt_items,
                    request >>
    /\ UNCHANGED << sensors, temp >>
    /\ UNCHANGED << gpu_item, event >>

NextUv == DetectUndervolt

SpecUv == InitUv /\ [][NextUv]_vars

----------------------------------------------------------------------------
(* SpecTemp: _read_cpu_temp over the sensor files *)

Chips ==
    [name : {"coretemp", "k10temp", "acpitz"},
     temp1_input : {NoFile, Text(45000), Text(61500), << "x" >>, << "-", "-", "5" >>}]

SensorFiles ==
    [listable : BOOLEAN,
     chips : UNION {[1..n -> Chips] : n \in 0..MaxChips},
     zone : {NoFile, Text(38000), << "0" >>, << "-", "-", "5" >>}]

InitTemp ==
    /\ pc = "temp"
    /\ sensors \in SensorFiles
    /\ temp = NoTemp
    /\ content = NoFile
    /\ result = None
    /\ files = NoFiles
    /\ cpu = NoCpu
    /\ profiles = << >>
    /\ live = None
    /\ conf = NoConf
    /\ current_profile_key = ""
    /\ current_undervolt_key = ""
    /\ profile_items = {}
    /\ undervolt_items = {}
    /\ request = NoRequest
    /\ fault = "none"
    /\ gpu_item = "absent"
    /\ event = NoEvent

ReadCpuTemp ==
    /\ pc = "temp"
    /\ LET r == _read_cpu_temp(sensors)
       IN  IF r.tag \in Exceptions
           THEN /\ pc' = "crashed"
                /\ fault' = r.tag
                /\ temp' = temp
           ELSE /\ pc' = "temp_done"
                /\ fault' = fault
                /\ temp' = r
    /\ UNCHANGED << content, result, files, cpu, profiles, live, conf,
                    current_profile_key, current_undervolt_key, profile_items,
                    undervolt_items, request, sensors >>
    /\ UNCHANGED << gpu_item, event >>

NextTemp == ReadCpuTemp

SpecTemp == InitTemp /\ [][NextTemp]_vars

----------------------------------------------------------------------------
(* Spec: the application from startup through its callbacks *)

AppModel == << "x", " ", "@", " ", "2", ".", "4", "0", "GHz" >>

AppCpuinfo ==
    [readable |-> TRUE, has_line |-> TRUE, has_colon |-> TRUE, text |-> AppModel]

\* four machines: nothing readable, a narrow range with the base frequency
\* at its lower end, a range starting at 4.1 GHz, and a malformed
\* base_frequency file
AppFiles ==
    {NoFiles,
     [cpuinfo |-> AppCpuinfo, min |-> Text(3600000), max |-> NoFile,
      base |-> Text(3600000)],
     [cpuinfo |-> AppCpuinfo, min |-> Text(4100000), max |-> Text(4700000),
      base |-> NoFile],
     [cpuinfo |-> AppCpuinfo, min |-> NoFile, max |-> NoFile,
      base |-> << "-", "-", "5" >>]}

AppLiveFiles == {NoFile, Text(800000), Text(3700000), Text(4000000)}

AppConfFiles ==
    {NoConf} \cup {[readable |-> TRUE, lines |-> << l >>] :
                      l \in {CpuLine("num", -750), CpuLine("num", -1250),
                             CpuLine("inf", 0)}}

\* values typed into the custom-frequency dialog, as kHz
EnteredKHz == {0, 1000000, 3700000, 4100000, 9000000}

\* values typed into the custom-undervolt dialog, in tenths of a millivolt
EnteredTenths == {-5000, -2000, -1255, -750, -5, 0, 100}

\* what "envycontrol --query" does when asked
GpuQueries ==
    {[ok |-> FALSE, stdout |-> << >>],
     [ok |-> TRUE, stdout |-> << "Hybrid" >>],
     [ok |-> TRUE, stdout |-> << "nvidia", "integrated" >>]}

Init ==
    /\ pc = "boot"
    /\ content = NoFile
    /\ result = None
    /\ files = NoFiles
    /\ cpu = NoCpu
    /\ profiles = << >>
    /\ live = None
    /\ conf = NoConf
    /\ current_profile_key = ""
    /\ current_undervolt_key = ""
    /\ profile_items = {}
    /\ undervolt_items = {}
    /\ request = NoRequest
    /\ fault = "none"
    /\ sensors = NoSensors
    /\ temp = NoTemp
    /\ gpu_item = "absent"
    /\ event = NoEvent

Crash(exc) ==
    /\ pc' = "crashed"
    /\ fault' = exc
    /\ UNCHANGED << cpu, profiles, current_profile_key, current_undervolt_key,
                    profile_items, undervolt_items, gpu_item >>

\* WattSaver.__init__: probe, build_profiles, _detect_profile,
\* _detect_undervolt, _build_menu with its _detect_gpu_mode.  The sensor
\* poll it starts writes the two sensor labels only; its temperature read
\* is the subject of SpecTemp.
Startup ==
    /\ pc = "boot"
    /\ \E f \in AppFiles, live_file \in AppLiveFiles, conf_file \in AppConfFiles,
          has_undervolt \in BOOLEAN, has_envycontrol \in BOOLEAN,
          q \in GpuQueries :
         LET r == CPUInfo(f)
             profs == build_profiles(CpuOf(r))
             current == read_sysfs_int(live_file)
             uv == _detect_undervolt(conf_file)
         IN  IF r.tag # "ok" THEN Crash(r.tag)
             ELSE IF Raised(current) THEN Crash(current.tag)
             ELSE IF uv.tag # "key" THEN Crash(uv.tag)
             ELSE /\ cpu' = CpuOf(r)
                  /\ profiles' = profs
                  /\ current_profile_key' = _detect_profile(current, profs)
                  /\ current_undervolt_key' = uv.key
                  /\ profile_items' = Keys(profs)
                  /\ undervolt_items' = IF has_undervolt THEN PresetKeys ELSE {}
                  /\ gpu_item' = IF has_envycontrol THEN _detect_gpu_mode(q)
                                  ELSE "absent"
                  /\ pc' = "running"
                  /\ fault' = fault
    /\ UNCHANGED << content, result, files, live, conf, request, event >>
    /\ UNCHANGED << sensors, temp >>

\* _on_profile_toggled for the item of profile_key, which has become active
OnProfileToggled ==
    /\ pc = "running"
    /\ \E profile_key \in profile_items :
         LET profile == _get_profile(profiles, profile_key)
         IN  IF profile_key = current_profile_key \/ profile = << >>
             THEN /\ request' = NoRequest
                  /\ event' = Event("_on_profile_toggled", "none")
                  /\ UNCHANGED << current_profile_key, fault >>
             ELSE \E outcome \in HelperOutcomes :
                  /\ request' = [verb |-> "set-freq", arg |-> profile[1].freq_khz,
                                 by |-> "profile"]
                  /\ event' = Event("_on_profile_toggled", outcome)
                  /\ IF run_helper(outcome)
                     THEN /\ current_profile_key' = profile_key
                          /\ fault' = fault
                     ELSE /\ current_profile_key' = current_profile_key
                          /\ fault' = IF current_profile_key \in profile_items
                                      THEN fault ELSE "KeyError"
    /\ UNCHANGED << pc, content, result, files, cpu, profiles, live, conf,
                    current_undervolt_key, profile_items, undervolt_items >>
    /\ UNCHANGED << sensors, temp, gpu_item >>

\* _on_custom_freq: the dialog, then set-freq with the spin button's value
OnCustomFreq ==
    /\ pc = "running"
    /\ \E response \in {"OK", "CANCEL"} :
         IF response # "OK"
         THEN /\ request' = NoRequest
              /\ event' = Event("_on_custom_freq", "cancel")
              /\ UNCHANGED current_profile_key
         ELSE \E entered \in EnteredKHz, outcome \in HelperOutcomes :
              LET freq_ghz == SpinValue(entered, cpu.hw_min_khz, cpu.hw_max_khz)
                  freq_khz == TruncGHz(freq_ghz)
              IN  /\ request' = [verb |-> "set-freq", arg |-> freq_khz,
                                 by |-> "custom_freq"]
                  /\ event' = Event("_on_custom_freq", outcome)
                  /\ current_profile_key' =
                        IF run_helper(outcome) THEN "__custom__"
                        ELSE current_profile_key
    /\ UNCHANGED << pc, content, result, files, cpu, profiles, live, conf,
                    current_undervolt_key, profile_items, undervolt_items, fault >>
    /\ UNCHANGED << sensors, temp, gpu_item >>

\* _on_undervolt_toggled for the item of preset_key, which has become active
OnUndervoltToggled ==
    /\ pc = "running"
    /\ \E preset_key \in undervolt_items :
         IF preset_key = current_undervolt_key \/ preset_key \notin PresetKeys
         THEN /\ request' = NoRequest
              /\ event' = Event("_on_undervolt_toggled", "none")
              /\ UNCHANGED << current_undervolt_key, fault >>
         ELSE \E outcome \in HelperOutcomes :
              /\ request' = [verb |-> "set-undervolt",
                             arg |-> PresetOffset(preset_key), by |-> "preset"]
              /\ event' = Event("_on_undervolt_toggled", outcome)
              /\ IF run_helper(outcome)
                 THEN /\ current_undervolt_key' = preset_key
                      /\ fault' = fault
                 ELSE /\ current_undervolt_key' = current_undervolt_key
                      /\ fault' = IF current_undervolt_key \in undervolt_items
                                  THEN fault ELSE "KeyError"
    /\ UNCHANGED << pc, content, result, files, cpu, profiles, live, conf,
                    current_profile_key, profile_items, undervolt_items >>
    /\ UNCHANGED << sensors, temp, gpu_item >>

\* _on_custom_undervolt: the dialog, then set-undervolt with the spin value;
\* the menu entry exists only when intel-undervolt is installed
OnCustomUndervolt ==
    /\ pc = "running"
    /\ undervolt_items # {}
    /\ \E response \in {"OK", "CANCEL"} :
         IF response # "OK"
         THEN /\ request' = NoRequest
              /\ event' = Event("_on_custom_undervolt", "cancel")
              /\ UNCHANGED current_undervolt_key
         ELSE \E entered \in EnteredTenths, outcome \in HelperOutcomes :
              LET offset == TruncTenths(SpinValue(entered, -2000, 0))
              IN  /\ request' = [verb |-> "set-undervolt", arg |-> offset,
                                 by |-> "custom_undervolt"]
                  /\ event' = Event("_on_custom_undervolt", outcome)
                  /\ current_undervolt_key' =
                        IF run_helper(outcome) THEN "__custom__"
                        ELSE current_undervolt_key
    /\ UNCHANGED << pc, content, result, files, cpu, profiles, live, conf,
                    current_profile_key, profile_items, undervolt_items, fault >>
    /\ UNCHANGED << sensors, temp, gpu_item >>

\* _on_gpu_switch for the submenu entry of GPU_MODES[m]; the submenu exists
\* only when envycontrol is installed.  The request carries the index of the
\* mode.
OnGpuSwitch ==
    /\ pc = "running"
    /\ gpu_item # "absent"
    /\ \E m \in 1..Len(GPU_MODES), q \in GpuQueries :
         LET mode == GPU_MODES[m]
             current == _detect_gpu_mode(q)
         IN  IF mode = current
             THEN /\ request' = NoRequest
                  /\ event' = Event("_on_gpu_switch", "none")
                  /\ UNCHANGED gpu_item
             ELSE \E response \in {"OK", "CANCEL"} :
                  IF response # "OK"
                  THEN /\ request' = NoRequest
                       /\ event' = Event("_on_gpu_switch", "cancel")
                       /\ UNCHANGED gpu_item
                  ELSE \E outcome \in HelperOutcomes :
                       /\ request' = [verb |-> "set-gpu", arg |-> m, by |-> "gpu"]
                       /\ event' = Event("_on_gpu_switch", outcome)
                       /\ gpu_item' = IF run_helper(outcome) THEN mode
                                       ELSE gpu_item
    /\ UNCHANGED << pc, content, result, files, cpu, profiles, live, conf,
                    current_profile_key, current_undervolt_key, profile_items,
                    undervolt_items, fault, sensors, temp >>

Next ==
    \/ Startup
    \/ OnProfileToggled
    \/ OnCustomFreq
    \/ OnUndervoltToggled
    \/ OnCustomUndervolt
    \/ OnGpuSwitch

Spec == Init /\ [][Next]_vars

----------------------------------------------------------------------------
(* Claims about read_sysfs_int (SpecRead) *)

\* decimal digits with an optional single leading minus sign
IsSignedDecimal(s) ==
    LET body == IF s # << >> /\ Head(s) = "-" THEN Tail(s) ELSE s
    IN  body # << >> /\ \A i \in 1..Len(body) : body[i] \in AsciiDigits

SignedDecimalValue(s) ==
    IF Head(s) = "-" THEN 0 - DecimalValue(Tail(s)) ELSE DecimalValue(s)

\* C7: read_sysfs_int never raises; it returns the integer when the trimmed
\* text is decimal digits with an optional single leading minus sign, and
\* None for any other text and for an unreadable file.
C7_ReadIntegerNeverThrows ==
    pc = "read_done" =>
        /\ ~Raised(result)
        /\ IF content # NoFile /\ IsSignedDecimal(Strip(content))
           THEN result = Some(SignedDecimalValue(Strip(content)))
           ELSE result = None

----------------------------------------------------------------------------
(* Claims about build_profiles and _detect_profile (SpecProfiles) *)

Built == pc \in {"built", "detected"}

\* C1: with hw_min_khz < hw_max_khz the returned list is in strictly
\* ascending freq_khz order, whatever the base frequency.
C1_StrictlyAscending ==
    (Built /\ cpu.hw_min_khz < cpu.hw_max_khz) =>
        \A i, j \in 1..Len(profiles) :
            i < j => profiles[i].freq_khz < profiles[j].freq_khz

\* C2: no two returned profiles share a 100 MHz bucket; a candidate is
\* dropped exactly when an earlier candidate of the same bucket was kept;
\* powersaver is always kept, so the list is never empty.
C2_FirstPerBucket ==
    Built =>
        LET cands == Candidates(cpu)
            kept(i) == cands[i].key \in Keys(profiles)
        IN  /\ \A i, j \in 1..Len(profiles) :
                  i # j => Bucket(profiles[i].freq_khz) # Bucket(profiles[j].freq_khz)
            /\ \A i \in 1..5 :
                  ~kept(i) <=> \E j \in 1..(i - 1) :
                                   /\ kept(j)
                                   /\ Bucket(cands[j].freq_khz) = Bucket(cands[i].freq_khz)
            /\ \A i \in 1..Len(profiles) : profiles[i] \in {cands[k] : k \in 1..5}
            /\ \A i, j \in 1..Len(profiles) :
                  i < j => \E a, b \in 1..5 :
                               a < b /\ profiles[i] = cands[a] /\ profiles[j] = cands[b]
            /\ Len(profiles) >= 1
            /\ profiles[1].key = "powersaver"

C2_Witness ==
    /\ Built
    /\ "low" \notin Keys(profiles)
    /\ "high" \in Keys(profiles)
    /\ "performance" \notin Keys(profiles)

NarrowCpu == [hw_min_khz |-> 3600000, hw_max_khz |-> 3800000, base_khz |-> 3700000]

\* C3 as stated: for the narrow-range capabilities Low (3650000) and
\* Balanced (3700000) round to the same bucket and the first encountered of
\* the two (Low) is the one that survives.
C3_LowBalancedSameBucket ==
    (Built /\ cpu = NarrowCpu) =>
        /\ Bucket(Candidates(cpu)[2].freq_khz) = Bucket(Candidates(cpu)[3].freq_khz)
        /\ "low" \in Keys(profiles)
        /\ "balanced" \notin Keys(profiles)

\* C3 amended: for the narrow-range capabilities Low (3650000) rounds to
\* bucket 36, the bucket of Power Saver, and Balanced (3700000) to bucket 37;
\* exactly one of the two survives, and it is Balanced.
C3_LowDroppedBalancedKept ==
    (Built /\ cpu = NarrowCpu) =>
        /\ Candidates(cpu)[2].freq_khz = 3650000
        /\ Bucket(3650000) = 36
        /\ Bucket(3600000) = 36
        /\ Bucket(3700000) = 37
        /\ Keys(profiles) \cap {"low", "balanced"} = {"balanced"}
        /\ profiles = << [key |-> "powersaver", freq_khz |-> 3600000],
                         [key |-> "balanced",   freq_khz |-> 3700000],
                         [key |-> "high",       freq_khz |-> 3750000] >>

C3_Witness == Built /\ cpu = NarrowCpu /\ Len(profiles) = 3

\* C4: the key _detect_profile returns is a key of the profile list, or
\* "balanced" when scaling_max_freq is unreadable; a live value equal to a
\* profile's freq_khz selects that profile.
C4_DetectedKeyInList ==
    pc = "detected" =>
        /\ live.tag = "None" => current_profile_key = "balanced"
        /\ live.tag = "int" =>
              /\ current_profile_key \in Keys(profiles)
              /\ \A i \in 1..Len(profiles) :
                    profiles[i].freq_khz = live.val =>
                        current_profile_key = profiles[i].key

C4_Witness ==
    /\ pc = "detected"
    /\ live.tag = "int"
    /\ Len(profiles) = 5
    /\ profiles[4].freq_khz = live.val
    /\ current_profile_key = "high"

\* C10: with a readable scaling_max_freq the returned key is that of a
\* profile at minimal distance from the live value, and of two equally near
\* profiles the one with the lower frequency is returned.
C10_NearestLowerOnTie ==
    (pc = "detected" /\ live.tag = "int") =>
        \E i \in 1..Len(profiles) :
            /\ profiles[i].key = current_profile_key
            /\ \A j \in 1..Len(profiles) :
                  /\ Abs(live.val - profiles[i].freq_khz)
                        <= Abs(live.val - profiles[j].freq_khz)
                  /\ Abs(live.val - profiles[i].freq_khz)
                        = Abs(live.val - profiles[j].freq_khz)
                     => profiles[i].freq_khz <= profiles[j].freq_khz

----------------------------------------------------------------------------
(* Claims about _detect_undervolt (SpecUv) *)

\* the lines of the config that match the CPU-plane directive
MatchingLines == {i \in 1..Len(conf.lines) : IsMatch(conf.lines[i])}

FirstMatching ==
    conf.lines[CHOOSE i \in MatchingLines : \A j \in MatchingLines : i <= j]

\* the config's CPU-plane line carries the integer offset o (in mV)
ConfOffsetIs(o) ==
    /\ conf.readable
    /\ MatchingLines # {}
    /\ FirstMatching.kind = "num"
    /\ FirstMatching.tenths = 10 * o

\* C6: over the integer offsets in (-inf, 0] the classification is total:
\* 0 is none, [-50, -1] is light, [-100, -51] is medium, below -100 is
\* aggressive; the boundaries 0, -50, -100 are none, light, medium.
C6_UndervoltClassification ==
    LET o == FirstMatching.tenths \div 10
    IN  (pc # "uv" /\ conf.readable /\ MatchingLines # {} /\ ConfOffsetIs(o) /\ o <= 0) =>
            /\ pc = "uv_done"
            /\ current_undervolt_key \in {"none", "light", "medium", "aggressive"}
            /\ o = 0 <=> current_undervolt_key = "none"
            /\ (-50 <= o /\ o <= -1) <=> current_undervolt_key = "light"
            /\ (-100 <= o /\ o <= -51) <=> current_undervolt_key = "medium"
            /\ o < -100 <=> current_undervolt_key = "aggressive"

C6_Witness ==
    /\ pc = "uv_done"
    /\ ConfOffsetIs(-75)
    /\ Len(conf.lines) >= 2
    /\ ~IsMatch(conf.lines[1])
    /\ current_undervolt_key = "medium"

----------------------------------------------------------------------------
(* Claims about CPUInfo.__init__ (SpecProbe) *)

\* the base frequency the resolution order prescribes for the files read
ExpectedBase ==
    LET val == read_sysfs_int(files.base)
        model == _read_model(files.cpuinfo).text
        match == re_search(model)
    IN  IF Truthy(val) THEN val.val
        ELSE IF match # << >> THEN GHzToKHz(match[1]).val
        ELSE (cpu.hw_min_khz + cpu.hw_max_khz) \div 2

\* C9: CPUInfo construction never aborts, whatever /proc/cpuinfo and the
\* sysfs nodes hold, and base_khz is the first success of the sysfs node, the
\* "@ <float>GHz" match times 1,000,000 truncated, and the midpoint.
C9_ProbeNeverAborts ==
    pc # "probe" =>
        /\ pc = "probed"
        /\ fault = "none"
        /\ cpu.base_khz = ExpectedBase

----------------------------------------------------------------------------
(* Claims about the application (Spec) *)

\* C5: after startup and after any sequence of profile selections and
\* custom-frequency requests, the tracked profile key is a key of the
\* synthesized profile list or the custom sentinel.
C5_ProfileKeyKnown ==
    pc = "running" => current_profile_key \in Keys(profiles) \cup {"__custom__"}

\* C8: a set-freq request of the custom-frequency action carries a value
\* within [hw_min_khz, hw_max_khz], and a set-undervolt request of the
\* custom-undervolt action an offset within [-200, 0].
C8_CustomValuesInRange ==
    /\ request.by = "custom_freq" =>
          /\ request.verb = "set-freq"
          /\ cpu.hw_min_khz <= request.arg
          /\ request.arg <= cpu.hw_max_khz
    /\ request.by = "custom_undervolt" =>
          /\ request.verb = "set-undervolt"
          /\ -200 <= request.arg
          /\ request.arg <= 0

----------------------------------------------------------------------------
(* Claims about _read_cpu_temp (SpecTemp) *)

\* the hwmon entries named coretemp or k10temp, when the directory lists
CpuChips ==
    IF sensors.listable
    THEN {i \in 1..Len(sensors.chips) : sensors.chips[i].name \in CpuChipNames}
    ELSE {}

\* those of them whose temp1_input reads as an integer
ReadableCpuChips ==
    {i \in CpuChips : read_sysfs_int(sensors.chips[i].temp1_input).tag = "int"}

Least(S) == CHOOSE i \in S : \A j \in S : i <= j

ZoneTemp ==
    LET val == read_sysfs_int(sensors.zone)
    IN  IF val.tag = "int" THEN Degrees(val.val) ELSE NoTemp

----------------------------------------------------------------------------
(* Claims about the failure path of the preset switches (Spec) *)

\* C12: in every reachable state of the running application the tracked
\* current profile key has a radio item in profile_items and, when the
\* undervolt presets are shown, the tracked current undervolt key has one in
\* undervolt_items, so that the failure branch of a preset switch can
\* re-activate that item, and no handler has raised KeyError.
C12_CurrentKeyHasItem ==
    pc = "running" =>
        /\ current_profile_key \in profile_items
        /\ undervolt_items # {} => current_undervolt_key \in undervolt_items
        /\ fault # "KeyError"

----------------------------------------------------------------------------
(* Claims about what changes the tracked keys (Spec) *)

KeysUnchanged ==
    /\ current_profile_key' = current_profile_key
    /\ current_undervolt_key' = current_undervolt_key

\* C13: once the application runs, a step changes the tracked profile key
\* or the tracked undervolt key only if run_helper returned success in that
\* step; a step whose helper was not found, exited 126, exited with another
\* non-zero status, timed out or raised, or whose dialog was cancelled,
\* leaves both keys as they were; and no step of _on_gpu_switch changes
\* either key.
C13_KeysChangeOnlyOnSuccess ==
    [][pc = "running" =>
          /\ ~KeysUnchanged => event'.outcome = "ok"
          /\ event'.outcome \in (HelperOutcomes \ {"ok"}) \cup {"cancel"}
                => KeysUnchanged
          /\ event'.handler = "_on_gpu_switch" => KeysUnchanged]_vars

\* a preset profile switch whose helper succeeded has moved the tracked
\* profile key to the profile whose frequency was requested
C13_Witness ==
    /\ pc = "running"
    /\ event = Event("_on_profile_toggled", "ok")
    /\ request.verb = "set-freq"
    /\ current_profile_key \in profile_items
    /\ _get_profile(profiles, current_profile_key)[1].freq_khz = request.arg
    /\ gpu_item = "nvidia"

====
